---- MODULE Spec2Model ----
(***************************************************************************)
(* A model of the GroupMe client library:                                  *)
(*   - page_through_messages (src/chat.py), the message paginator behind   *)
(*     Group.get_messages and DirectMessage.get_messages;                  *)
(*   - call_api (src/common_utils.py), the API gateway;                    *)
(*   - Message.replied_message (src/message.py), the reply resolver;       *)
(*   - the merge at the end of GroupMe.get_chats (src/base_object.py).     *)
(* The GroupMe server is the environment: it answers every request with a  *)
(* status and, on 200, with a page of the conversation.                    *)
(***************************************************************************)
EXTENDS Integers, Sequences, FiniteSets, TLC

\* ------------------------------------------------------------------ bounds
\* Longest conversation the server holds.
MaxMsgs == 2
\* Largest finite `limit` a caller passes.
MaxLimit == 2
\* Largest page the server sends in one response.
MaxPage == 2
\* Longest conversation the reply resolver pages through.
MaxThread == 3
\* Longest list of groups, and of direct messages, handed to the merge.
MaxChats == 2
\* Most groups, and most direct message chats, the user has on the server.
MaxListed == 3
\* Largest page of a listing the server sends in one response.
MaxListPage == 2
\* Largest number of a duration given to get_cutoff.
MaxNumber == 13

\* ------------------------------------------------------- program constants
\* The platform's page size cap used for effective_limit (chat.py:158,160).
PageCap == 100
\* limit = -1 means "no limit" (chat.py:157).
NoLimit == -1
\* per_page of the listing requests (base_object.py:49, 77, 132, 169).
PerPage == 10

\* Python's None as a message id (reply_message_id, message.py:43).
NoneId == 0
\* Python's None as a chat id (message.py:63), as an f-string renders it.
NoneChat == "None"
\* A function's `return None` / a returned object, as a list of 0 or 1 items.
NoResult == <<>>
Some(x) == <<x>>
\* data['text'] of a message without text (an image-only message).
NoneText == <<"<None>">>

\* created_at values; the bounds `before` and `after` are taken at 2, so the
\* three values are below, at and above each bound.
Epochs == {1, 2, 3}
\* Converted `before`/`after`: '' stays falsy (0), otherwise an epoch.
BoundValues == {0, 2}
\* data['text'] values: None, and strings over a small alphabet.
Texts == {NoneText, <<"a", "b">>, <<"b", "A", "b">>}
\* `keyword`: '' (unset) or a string.
Keywords == {<<>>, <<"a", "b">>}
\* `limit`: none, the small ones, and one above the page cap.
Limits == {NoLimit} \cup (0..MaxLimit) \cup {PageCap + MaxLimit}

\* HTTP status codes the server answers with.
Statuses == {200, 304, 500}
\* The status for a chat the server does not know.
NotFound == {404}

\* The chat the paginator is called on (self.id, self.name of the Chat).
ChatId == "7"
ChatName == "Team"

\* -------------------------------------------------------------- helpers
Min(a, b) == IF a <= b THEN a ELSE b

\* A Python dictionary is a function from its keys; d[k] = v adds or replaces.
EmptyDict == <<>>
HasKey(d, k) == k \in DOMAIN d
Put(d, k, v) == [x \in (DOMAIN d) \cup {k} |-> IF x = k THEN v ELSE d[x]]

\* Python's `kw in text` for strings as sequences of characters.
Contains(text, kw) ==
    \E k \in 0..(Len(text) - Len(kw)) :
        \A j \in 1..Len(kw) : text[k + j] = kw[j]

\* One API record of a message, as the server stores it.
ApiMessage(i, e, t) == [id |-> i, created_at |-> e, text |-> t]

\* All conversations up to MaxMsgs messages, newest first; ids are unique
\* (the i-th message has id i).
Conversations ==
    UNION { { [i \in 1..n |-> ApiMessage(i, et[i][1], et[i][2])] :
                et \in [1..n -> Epochs \X Texts] } : n \in 0..MaxMsgs }

\* The conversations the reply resolver pages through: up to MaxThread
\* messages, any epochs, the i-th message has id i.
Threads ==
    UNION { { [i \in 1..n |-> ApiMessage(i, e[i], <<"a", "b">>)] :
                e \in [1..n -> Epochs] } : n \in 1..MaxThread }

\* The first page of the `groups` / `chats` listing, as (name, id) entries:
\* the chat may be on it, after another chat, or not on it.
Directories ==
    { <<>>,
      <<[name |-> ChatName, id |-> ChatId]>>,
      <<[name |-> "Other", id |-> "8"]>>,
      <<[name |-> "Other", id |-> "8"], [name |-> ChatName, id |-> ChatId]>> }

\* A Chat object as the merge reads it (chat.py:61-68, 99-105): its class,
\* its id and last_used_epoch.
ChatObject(kind, i, e) == [kind |-> kind, id |-> i, last_used_epoch |-> e]

\* The lists of up to MaxChats chats of one kind, in any order of activity.
ChatLists(kind) ==
    UNION { { [i \in 1..n |-> ChatObject(kind, i, e[i])] :
                e \in [1..n -> Epochs] } : n \in 0..MaxChats }

\* One entry of the `groups` / `chats` listing as the directory reads it:
\* name (group['name'], dm['other_user']['name']), id, and last activity
\* (group['messages']['last_message_created_at'], dm['last_message']['created_at']).
ListingEntry(name, i, e) == [name |-> name, id |-> i, last |-> e]

\* Listings for the search by name: any names, up to MaxListed entries.
NamedListings ==
    UNION { { [i \in 1..n |-> ListingEntry(nm[i], i, 1)] :
                nm \in [1..n -> {ChatName, "Other"}] } : n \in 0..MaxListed }

\* Listings for get_chats: any last activity, up to MaxListed entries.
DatedListings ==
    UNION { { [i \in 1..n |-> ListingEntry(ChatName, i, ep[i])] :
                ep \in [1..n -> Epochs] } : n \in 0..MaxListed }

\* ------------------------------------------------- strings and integers
DigitChars == <<"0", "1", "2", "3", "4", "5", "6", "7", "8", "9">>
IsDigit(ch) == \E d \in 1..Len(DigitChars) : DigitChars[d] = ch
DigitValue(ch) == (CHOOSE d \in 1..Len(DigitChars) : DigitChars[d] = ch) - 1

\* str(n) for n >= 0.
RECURSIVE str(_)
str(n) ==
    IF n < Len(DigitChars) THEN <<DigitChars[n + 1]>>
    ELSE str(n \div Len(DigitChars))
            \o <<DigitChars[(n % Len(DigitChars)) + 1]>>

\* The value of a string of digits.
RECURSIVE DigitsValue(_)
DigitsValue(s) ==
    IF s = <<>> THEN 0
    ELSE DigitsValue(SubSeq(s, 1, Len(s) - 1)) * Len(DigitChars)
            + DigitValue(s[Len(s)])

\* int(s) (base_object.py:254, 260-262) for a string of digits and letters:
\* the value of a non-empty string of digits, else ValueError.
int(s) ==
    IF s # <<>> /\ \A j \in 1..Len(s) : IsDigit(s[j])
    THEN [exc |-> "none", val |-> DigitsValue(s)]
    ELSE [exc |-> "ValueError", val |-> 0]

\* s.split(sep) for a one-character separator.
RECURSIVE split(_, _)
split(s, sep) ==
    IF \E j \in 1..Len(s) : s[j] = sep
    THEN LET j == CHOOSE k \in 1..Len(s) :
                    s[k] = sep /\ \A i \in 1..(k - 1) : s[i] # sep
         IN  <<SubSeq(s, 1, j - 1)>> \o split(SubSeq(s, j + 1, Len(s)), sep)
    ELSE <<s>>

\* ------------------------------------------------------------ calendar
\* The proleptic Gregorian calendar of datetime, in a zone without offset.
IsLeap(y) == (y % 4 = 0 /\ y % 100 # 0) \/ y % 400 = 0
DaysInMonth(y, m) ==
    IF m = 2 THEN (IF IsLeap(y) THEN 29 ELSE 28)
    ELSE IF m \in {4, 6, 9, 11} THEN 30 ELSE 31
\* Leap years up to and including year y.
LeapsUpTo(y) == (y \div 4) - (y \div 100) + (y \div 400)
RECURSIVE DaysBeforeMonth(_, _)
DaysBeforeMonth(y, m) ==
    IF m = 1 THEN 0 ELSE DaysBeforeMonth(y, m - 1) + DaysInMonth(y, m - 1)

\* datetime(year, month, day, hour, minute, second): ValueError when the
\* month is not in 1..12 or the day is not a day of that month.
datetime(y, m, d, hh, mm, ss) ==
    IF y \in 1..9999 /\ m \in 1..12 /\ d \in 1..DaysInMonth(y, m)
    THEN [exc |-> "none",
          val |-> [year |-> y, month |-> m, mday |-> d,
                   hour |-> hh, min |-> mm, sec |-> ss]]
    ELSE [exc |-> "ValueError", val |-> <<>>]

\* datetime.timestamp(): seconds since 1970-01-01 00:00:00.
timestamp(t) ==
    ((t.year - 1970) * 365 + LeapsUpTo(t.year - 1) - LeapsUpTo(1969)
        + DaysBeforeMonth(t.year, t.month) + (t.mday - 1)) * 86400
    + t.hour * 3600 + t.min * 60 + t.sec

\* ---------------------------------------------------------- to_seconds
\* time_functions.py:18-53 with the clock `now` that time.time() and
\* time.localtime() read.  The result is the seconds returned or the
\* exception raised.
Seconds(n) == [exc |-> "none", message |-> <<>>, val |-> n]
Raise(exc, message) == [exc |-> exc, message |-> message, val |-> 0]

\* time_functions.py:39-45
MonthsBack(number, now) ==
    LET months_to_subtract == number % 12
        years_to_subtract == number \div 12
    IN  datetime(now.year - years_to_subtract, now.month - months_to_subtract,
                 now.mday, now.hour, now.min, now.sec)

to_seconds(number, units, now) ==
    IF units = <<"m", "i", "n">> THEN Seconds(number * 60)
    ELSE IF units = <<"h">> THEN Seconds(number * 3600)
    ELSE IF units = <<"d">> THEN Seconds(number * 3600 * 24)
    ELSE IF units = <<"w">> THEN Seconds(number * 3600 * 24 * 7)
    ELSE IF units = <<"m">>
    THEN LET cutoff_date == MonthsBack(number, now)
         IN  IF cutoff_date.exc # "none" THEN Raise(cutoff_date.exc, <<>>)
             ELSE Seconds(timestamp(now) - timestamp(cutoff_date.val))
    ELSE IF units = <<"y">>
    THEN LET cutoff_date == datetime(now.year - number, now.month, now.mday,
                                     now.hour, now.min, now.sec)
         IN  IF cutoff_date.exc # "none" THEN Raise(cutoff_date.exc, <<>>)
             ELSE Seconds(timestamp(now) - timestamp(cutoff_date.val))
    ELSE Raise("GroupMeException",
               <<"Invalid units specified for last_used duration">>)

\* ----------------------------------------------------------- get_cutoff
\* base_object.py:253-254, 258-262, 266
InvalidArgument == <<"Invalid argument for argument \"last_used\"">>

\* base_object.py:252-253: the unit is the last character.
UnitOf(s) ==
    [number |-> SubSeq(s, 1, Len(s) - 1), unit |-> SubSeq(s, Len(s), Len(s))]

\* base_object.py:245-270.  The result is the cutoff returned (0 for None)
\* or the exception raised.
get_cutoff(s, now) ==
    IF s = <<>> THEN Seconds(0)
    ELSE LET date_components == split(s, "/")
         IN IF Len(date_components) = 1
            THEN LET number == int(UnitOf(s).number)
                     timespan == to_seconds(number.val, UnitOf(s).unit, now)
                 IN  IF number.exc # "none"
                     THEN Raise("GroupMeException", InvalidArgument)
                     ELSE IF timespan.exc # "none" THEN timespan
                     ELSE Seconds(timestamp(now) - timespan.val)
            ELSE IF Len(date_components) = 3
            THEN LET month == int(date_components[1])
                     day == int(date_components[2])
                     year == int(date_components[3])
                     date == datetime(year.val, month.val, day.val, 0, 0, 0)
                 IN  IF month.exc # "none" \/ day.exc # "none"
                            \/ year.exc # "none"
                     THEN Raise("GroupMeException", InvalidArgument)
                     ELSE IF date.exc # "none" THEN Raise(date.exc, <<>>)
                     ELSE Seconds(timestamp(now)
                                    - (timestamp(now) - timestamp(date.val)))
            ELSE Raise("GroupMeException", InvalidArgument)

\* The units of the duration grammar and one that is none of them.
Units == {<<"m", "i", "n">>, <<"h">>, <<"d">>, <<"w">>, <<"m">>, <<"y">>,
          <<"s">>}

\* The arguments get_cutoff is given: durations "<n><unit>", and the empty
\* string, a date and a string with one slash.
LastUsedValues ==
    { str(n) \o u : n \in 0..MaxNumber, u \in Units }
        \cup { <<>>, <<"0", "3", "/", "1", "5", "/", "2", "0", "2", "4">>,
               <<"3", "/", "1", "5">> }

\* The wall clock: the middle and the last day of each month of a leap
\* year and of the year after, half past noon.
Noon == [year |-> 2024, month |-> 1, mday |-> 15,
         hour |-> 12, min |-> 30, sec |-> 45]
Clocks ==
    { [Noon EXCEPT !.year = y, !.month = m, !.mday = d] :
        y \in {2024, 2025}, m \in 1..12, d \in {15, 29, 31} }
    \cap { t \in [year : {2024, 2025}, month : 1..12, mday : {15, 29, 31},
                  hour : {12}, min : {30}, sec : {45}] :
                t.mday <= DaysInMonth(t.year, t.month) }

VARIABLES
    \* ---- paginator inputs (chat.py:114); is_group is also Message.is_group
    is_group, before, after, keyword, limit,
    \* ---- server state: the conversation the chat id names
    conv,
    \* ---- paginator locals
    pc,            \* "start" | "page" | "fetch" | "done" | "raised"
    messages,      \* chat.py:143
    num_skipped,   \* chat.py:144
    in_range,      \* chat.py:145
    params,        \* chat.py:154, [limit, other_user_id, before_id]
    message_page,  \* chat.py:165..170, 207..211
    idx,           \* position of the for loop in message_page (1-based)
    error,         \* the exception that ended the call, or "none"
    error_message, \* the message the exception carries
    \* ---- observation: every request sent, with the answer it got
    requests,
    \* ---- reply resolver (message.py:54-113)
    self_msg,      \* the Message replied_message is called on
    directory,     \* server state: first page of the groups / chats listing
    chat_id,       \* message.py:63
    last_id,       \* message.py:79
    result,        \* what replied_message returned
    \* ---- merge of get_chats (base_object.py:201-220)
    groups, direct_messages,   \* base_object.py:121-122, as filled by 128-199
    chats,                     \* base_object.py:123
    group_index, dm_index,     \* base_object.py:202-203
    mpc,           \* "idle" | "merge" | "drain_dm" | "drain_group" | "done"
    \* ---- chat directory: get_chat, get_chats (base_object.py:39-199)
    is_dm,         \* base_object.py:94
    cutoff,        \* base_object.py:126, 0 for None
    group_list,    \* server state: the user's groups, in listing order
    dm_list,       \* server state: the user's direct message chats
    stream,        \* the listing being paged: "groups" | "chats"
    list_page,     \* group_page / dm_page
    \* ---- get_cutoff (base_object.py:245-270)
    last_used,     \* the argument, a string
    clock,         \* the local wall clock time.time() / time.localtime() read
    \* ---- page_through_messages' `before` and `after` as passed, strings
    \* (chat.py:114); `before` and `after` above are what 132-140 make of them
    before_str, after_str

pvars == <<is_group, before, after, keyword, limit, conv, pc, messages,
           num_skipped, in_range, params, message_page, idx, error,
           error_message, requests>>

\* What the paginator does not touch, and what the resolver does not touch.
reply_only == <<self_msg, directory, chat_id, last_id, result>>
paginator_only == <<before, after, keyword, limit, messages, num_skipped,
                    in_range>>

merge_vars == <<groups, direct_messages, chats, group_index, dm_index, mpc>>

dir_vars == <<is_dm, cutoff, group_list, dm_list, stream, list_page,
              last_used, clock>>

arg_vars == <<before_str, after_str>>

vars == <<pvars, reply_only, merge_vars, dir_vars, arg_vars>>

\* ------------------------------------------------------------ the server
\* Position in the conversation of the message the before_id parameter names
\* (0 without one: the page starts at the newest message).
CursorPos(c, ps) ==
    IF ~HasKey(ps, "before_id") \/ ~(\E j \in 1..Len(c) : c[j].id = ps.before_id)
    THEN 0
    ELSE CHOOSE j \in 1..Len(c) : c[j].id = ps.before_id

\* The pages the server may answer with on a 200: the messages strictly older
\* than the cursor, newest first, at most `lim` of them when the request
\* carries a limit, at most MaxPage of them in any case, and at least one
\* while some remain (and the limit allows one).
ServerPages(c, ps) ==
    LET pos == CursorPos(c, ps)
        remaining == Len(c) - pos
        cap == IF HasKey(ps, "limit")
               THEN Min(ps.limit, Min(remaining, MaxPage))
               ELSE Min(remaining, MaxPage)
    IN  IF cap <= 0 THEN { <<>> }
        ELSE { SubSeq(c, pos + 1, pos + k) : k \in 1..cap }

\* ------------------------------------------------------------- call_api
\* common_utils.py:21-45.  `endpoint` is the path split at '/', `status` the
\* HTTP status and `payload` the `response` field of the envelope.  The
\* result is the returned dictionary (its keys, and the list under its
\* message key) or the exception raised.
StartsWithGroups(endpoint) == endpoint[1] = "groups"

\* None as except_message, and a raised exception without a modelled message.
NoMessage == <<>>
\* A gateway that drops the caller's message.
ExceptMessage_AlwaysDefault(except_message) ==
    <<"Unspecified error occurred">>

\* common_utils.py:33-34
ExceptMessage(except_message) ==
    IF except_message = NoMessage THEN <<"Unspecified error occurred">>
    ELSE except_message

\* A gateway without the 304 normalisation.
call_api_No304(endpoint, status, payload, except_message) ==
    IF status # 200
    THEN [exc |-> "GroupMeException", message |-> ExceptMessage(except_message),
          keys |-> {}, list |-> <<>>]
    ELSE payload

call_api(endpoint, status, payload, except_message) ==
    IF status = 304 /\ StartsWithGroups(endpoint)
    THEN [exc |-> "none", keys |-> {"messages"}, list |-> <<>>]
    ELSE IF status = 304 /\ endpoint = <<"direct_messages">>
    THEN [exc |-> "none", keys |-> {"direct_messages"}, list |-> <<>>]
    ELSE IF status # 200
    THEN [exc |-> "GroupMeException", message |-> ExceptMessage(except_message),
          keys |-> {}, list |-> <<>>]
    ELSE payload

\* ---------------------------------------------------------------- Message
\* message.py:25-52, the fields the paginator and the resolver read.  The
\* paginator builds it as Message(name, is_group, message) (chat.py:179, the
\* constructor of the `message` module chat.py imports); the resolver passes
\* its token as well (message.py:97), which message.py:44 stores and no
\* modelled step reads.
Message(name, isgroup, data) ==
    [chat |-> name, id |-> data.id, time_epoch |-> data.created_at,
     text |-> data.text, is_group |-> isgroup]

\* ------------------------------------------------ page_through_messages
\* chat.py:147-151
Endpoint(isgroup, cid) ==
    IF isgroup THEN <<"groups", cid, "messages">> ELSE <<"direct_messages">>

\* An effective limit without the cap of a page.
EffectiveLimit_Uncapped(lim, collected) ==
    IF lim = NoLimit THEN PageCap ELSE lim - Len(collected)

\* chat.py:156-160 and 200-204
EffectiveLimit(lim, collected) ==
    IF lim = NoLimit THEN PageCap ELSE Min(lim - Len(collected), PageCap)

\* The key of the response dictionary holding the page (chat.py:167-170).
PageKey(isgroup) == IF isgroup THEN "messages" ELSE "direct_messages"

\* The 200 payload of a message endpoint.
Payload(isgroup, page) ==
    [exc |-> "none", keys |-> {"count", PageKey(isgroup)}, list |-> page]

\* A loop that never stops early.
OutOfRange_Never(m, aft) == FALSE

\* A lower bound that is off by one second.
OutOfRange_OffByOne(m, aft) == aft # 0 /\ m.created_at + 1 < aft

\* chat.py:173
OutOfRange(m, aft) == aft # 0 /\ m.created_at < aft

\* An upper bound that is off by one second.
Skipped_OffByOne(m, bef, kw) ==
    \/ (bef # 0 /\ m.created_at > bef + 1)
    \/ (kw # <<>> /\ (m.text = NoneText \/ ~Contains(m.text, kw)))

\* A keyword test that lets a message without text through.
Skipped_NullTextPasses(m, bef, kw) ==
    \/ (bef # 0 /\ m.created_at > bef)
    \/ (kw # <<>> /\ m.text # NoneText /\ ~Contains(m.text, kw))

\* chat.py:176
Skipped(m, bef, kw) ==
    \/ (bef # 0 /\ m.created_at > bef)
    \/ (kw # <<>> /\ (m.text = NoneText \/ ~Contains(m.text, kw)))

\* No directory operation is running.
IdleDir ==
    /\ is_dm = FALSE /\ cutoff = 0 /\ group_list = <<>> /\ dm_list = <<>>
    /\ stream = "none" /\ list_page = <<>>
    /\ last_used = <<>> /\ clock = Noon

\* The bounds were passed converted, or not at all.
NoArgs == before_str = <<>> /\ after_str = <<>>

\* No merge is running.
IdleMerge ==
    /\ groups = <<>> /\ direct_messages = <<>> /\ chats = <<>>
    /\ group_index = 0 /\ dm_index = 0 /\ mpc = "idle"

\* chat.py:165, 207: f'Error fetching messages from {name}'
FetchError(name) == <<"Error fetching messages from ", name>>

\* A while condition that also leaves the loop on a page of one message.
LoopAgain_NotOnSingle(page, inrange) == Len(page) > 1 /\ inrange

\* chat.py:171, the while condition
LoopAgain(page, inrange) == Len(page) > 0 /\ inrange

InitP ==
    /\ is_group \in BOOLEAN
    /\ before \in BoundValues
    /\ after \in BoundValues
    /\ keyword \in Keywords
    /\ limit \in Limits
    /\ conv \in Conversations
    /\ pc = "start"
    /\ messages = <<>>
    /\ num_skipped = 0
    /\ in_range = TRUE
    /\ params = EmptyDict
    /\ message_page = <<>>
    /\ idx = 0
    /\ error = "none" /\ error_message = NoMessage
    /\ requests = <<>>
    /\ self_msg = Message(ChatName, is_group, ApiMessage(NoneId, 1, NoneText))
    /\ directory = <<>>
    /\ chat_id = NoneChat
    /\ last_id = NoneId
    /\ result = NoResult
    /\ IdleMerge
    /\ IdleDir
    /\ NoArgs

\* One request of the paginator: the server picks a status and a page, the
\* gateway turns them into a dictionary or an exception, and the request is
\* logged with what it carried and what came back.
Logged(endpoint, ps, status, r) ==
    [endpoint |-> endpoint, params |-> ps,
     status |-> status, exc |-> r.exc, page |-> r.list]

\* chat.py:153-171: set the parameters, send the first request, read `count`
\* and the page, and enter the loop or return.
FirstRequest ==
    /\ pc = "start"
    /\ LET ps == IF is_group
                 THEN Put(params, "limit", EffectiveLimit(limit, messages))
                 ELSE Put(params, "other_user_id", ChatId)
       IN \E status \in Statuses :
          \E page \in ServerPages(conv, ps) :
            LET r == call_api(Endpoint(is_group, ChatId), status,
                              Payload(is_group, page), FetchError(ChatName))
            IN  /\ params' = ps
                /\ requests' = Append(requests,
                        Logged(Endpoint(is_group, ChatId), ps, status, r))
                /\ IF r.exc # "none"
                   THEN /\ pc' = "raised"
                        /\ error' = r.exc /\ error_message' = r.message
                        /\ UNCHANGED <<message_page, idx>>
                   ELSE IF "count" \notin r.keys
                   THEN /\ pc' = "raised"
                        /\ error' = "KeyError" /\ error_message' = NoMessage
                        /\ UNCHANGED <<message_page, idx>>
                   ELSE /\ message_page' = r.list
                        /\ error' = "none" /\ error_message' = NoMessage
                        /\ IF LoopAgain(r.list, in_range)
                           THEN pc' = "page" /\ idx' = 1
                           ELSE pc' = "done" /\ idx' = 0
    /\ UNCHANGED <<is_group, before, after, keyword, limit, conv, messages,
                   num_skipped, in_range>>
    /\ UNCHANGED reply_only
    /\ UNCHANGED merge_vars
    /\ UNCHANGED <<dir_vars, arg_vars>>

\* chat.py:172-197: one iteration of the for loop over the page.
ProcessMessage ==
    /\ pc = "page"
    /\ LET message == message_page[idx]
       IN IF OutOfRange(message, after)
          THEN /\ in_range' = FALSE
               /\ pc' = "fetch"
               /\ UNCHANGED <<messages, num_skipped, params, idx>>
          ELSE /\ IF Skipped(message, before, keyword)
                  THEN /\ num_skipped' = num_skipped + 1
                       /\ UNCHANGED messages
                  ELSE /\ messages' = Append(messages,
                                             Message(ChatName, is_group, message))
                       /\ UNCHANGED num_skipped
               /\ IF idx = Len(message_page)
                  THEN /\ params' = Put(params, "before_id", message.id)
                       /\ pc' = "fetch"
                       /\ UNCHANGED idx
                  ELSE /\ idx' = idx + 1
                       /\ UNCHANGED <<params, pc>>
               /\ UNCHANGED in_range
    /\ UNCHANGED <<is_group, before, after, keyword, limit, conv,
                   message_page, error, error_message, requests>>
    /\ UNCHANGED reply_only
    /\ UNCHANGED merge_vars
    /\ UNCHANGED <<dir_vars, arg_vars>>

\* chat.py:199-211 and 171: recompute the effective limit, send the next
\* request, and re-test the while condition; 215 returns when it fails.
NextRequest ==
    /\ pc = "fetch"
    /\ LET ps == IF is_group
                 THEN Put(params, "limit", EffectiveLimit(limit, messages))
                 ELSE params
       IN \E status \in Statuses :
          \E page \in ServerPages(conv, ps) :
            LET r == call_api(Endpoint(is_group, ChatId), status,
                              Payload(is_group, page), FetchError(ChatName))
            IN  /\ params' = ps
                /\ requests' = Append(requests,
                        Logged(Endpoint(is_group, ChatId), ps, status, r))
                /\ IF r.exc # "none"
                   THEN /\ pc' = "raised"
                        /\ error' = r.exc /\ error_message' = r.message
                        /\ UNCHANGED <<message_page, idx>>
                   ELSE /\ message_page' = r.list
                        /\ error' = "none" /\ error_message' = NoMessage
                        /\ IF LoopAgain(r.list, in_range)
                           THEN pc' = "page" /\ idx' = 1
                           ELSE pc' = "done" /\ idx' = 0
    /\ UNCHANGED <<is_group, before, after, keyword, limit, conv, messages,
                   num_skipped, in_range>>
    /\ UNCHANGED reply_only
    /\ UNCHANGED merge_vars
    /\ UNCHANGED <<dir_vars, arg_vars>>

NextP == FirstRequest \/ ProcessMessage \/ NextRequest

Spec == InitP /\ [][NextP]_vars

\* The paginator runs to its end: a step that can be taken is taken.
SpecLive == Spec /\ WF_vars(NextP)

\* ------------------------------------------- Message.replied_message
\* message.py:25-52 for the Message the resolver is called on: the fields of
\* Message(...) plus reply_message_id (message.py:43, 51-52).
ReplyingMessage(name, isgroup, data, reply_id) ==
    [chat |-> name, id |-> data.id, time_epoch |-> data.created_at,
     text |-> data.text, is_group |-> isgroup, reply_message_id |-> reply_id]

\* message.py:66-69 and 72-75: the id of the first listed chat of that name.
FindChat(listing, name) ==
    IF \E j \in 1..Len(listing) : listing[j].name = name
    THEN listing[CHOOSE j \in 1..Len(listing) :
                    /\ listing[j].name = name
                    /\ \A k \in 1..(j - 1) : listing[k].name # name].id
    ELSE NoneChat

\* A comparison against the resolver's own id instead of the reply id.
IsRepliedTo_OwnId(message, self) == message.id = self.id

\* message.py:96
IsRepliedTo(message, self) == message.id = self.reply_message_id

\* message.py:81-84, 101-104 (Group) and 87-90, 107-110 (DirectMessage)
ReplyParams(isgroup, cid, cursor) ==
    IF isgroup
    THEN Put(Put(EmptyDict, "before_id", cursor), "limit", PageCap)
    ELSE Put(Put(EmptyDict, "other_user", cid), "before_id", cursor)

\* The statuses the server may answer a message request for chat `cid` with.
ReplyStatuses(cid) == IF cid = ChatId THEN Statuses ELSE NotFound

\* A test that takes every message for a reply.
IsReply_Always(self) == TRUE

\* message.py:61
IsReply(self) == self.reply_message_id # NoneId

InitReply ==
    /\ is_group \in BOOLEAN
    /\ conv \in Threads
    /\ \E own \in 1..Len(conv), reply_id \in 0..(MaxThread + 1) :
          self_msg = ReplyingMessage(ChatName, is_group, conv[own], reply_id)
    /\ directory \in Directories
    /\ chat_id = NoneChat
    /\ last_id = NoneId
    /\ result = NoResult
    /\ pc = "start"
    /\ params = EmptyDict
    /\ message_page = <<>>
    /\ idx = 0
    /\ error = "none" /\ error_message = NoMessage
    /\ requests = <<>>
    /\ before = 0 /\ after = 0 /\ keyword = <<>> /\ limit = NoLimit
    /\ messages = <<>> /\ num_skipped = 0 /\ in_range = TRUE
    /\ IdleMerge
    /\ IdleDir
    /\ NoArgs

\* message.py:61 and 113: not a reply, return None.
NotAReply ==
    /\ pc = "start"
    /\ ~IsReply(self_msg)
    /\ pc' = "done"
    /\ result' = NoResult
    /\ UNCHANGED <<is_group, conv, params, message_page, idx, error,
                   error_message, requests,
                   self_msg, directory, chat_id, last_id>>
    /\ UNCHANGED paginator_only
    /\ UNCHANGED merge_vars
    /\ UNCHANGED <<dir_vars, arg_vars>>

\* message.py:61-79: list the groups or chats (first page, no parameters) and
\* take the id of the chat named self.chat.  A 304 on `groups` comes back from
\* call_api as the dictionary {'messages': []}; iterating it yields its key,
\* and 'messages'['name'] is a TypeError.
ResolveChat ==
    /\ pc = "start"
    /\ IsReply(self_msg)
    /\ LET endpoint == IF is_group THEN <<"groups">> ELSE <<"chats">>
       IN \E status \in Statuses :
            LET r == call_api(endpoint, status,
                              [exc |-> "none", keys |-> {}, list |-> directory],
                              NoMessage)
            IN  /\ requests' = Append(requests,
                                      Logged(endpoint, EmptyDict, status, r))
                /\ IF r.exc # "none"
                   THEN /\ pc' = "raised" /\ error' = r.exc /\ error_message' = r.message
                        /\ UNCHANGED <<chat_id, last_id>>
                   ELSE IF r.keys # {}
                   THEN /\ pc' = "raised" /\ error' = "TypeError" /\ error_message' = NoMessage
                        /\ UNCHANGED <<chat_id, last_id>>
                   ELSE /\ chat_id' = FindChat(r.list, self_msg.chat)
                        /\ last_id' = self_msg.id
                        /\ pc' = "fetch" /\ error' = "none" /\ error_message' = NoMessage
    /\ UNCHANGED <<is_group, conv, params, message_page, idx, self_msg,
                   directory, result>>
    /\ UNCHANGED paginator_only
    /\ UNCHANGED merge_vars
    /\ UNCHANGED <<dir_vars, arg_vars>>

\* message.py:80-91 (first page) and 100-111 (next page), then the while test
\* of 94; 113 returns None when the page is empty.
ReplyPage ==
    /\ pc = "fetch"
    /\ LET ps == ReplyParams(is_group, chat_id, last_id)
           endpoint == Endpoint(is_group, chat_id)
       IN \E status \in ReplyStatuses(chat_id) :
          \E page \in ServerPages(conv, ps) :
            LET r == call_api(endpoint, status, Payload(is_group, page),
                              <<"Error fetching reply information">>)
            IN  /\ params' = ps
                /\ requests' = Append(requests, Logged(endpoint, ps, status, r))
                /\ IF r.exc # "none"
                   THEN /\ pc' = "raised" /\ error' = r.exc /\ error_message' = r.message
                        /\ UNCHANGED <<message_page, idx, result>>
                   ELSE /\ message_page' = r.list
                        /\ error' = "none" /\ error_message' = NoMessage
                        /\ IF Len(r.list) > 0
                           THEN pc' = "scan" /\ idx' = 1 /\ UNCHANGED result
                           ELSE pc' = "done" /\ idx' = 0 /\ result' = NoResult
    /\ UNCHANGED <<is_group, conv, self_msg, directory, chat_id, last_id>>
    /\ UNCHANGED paginator_only
    /\ UNCHANGED merge_vars
    /\ UNCHANGED <<dir_vars, arg_vars>>

\* message.py:95-98: one iteration of the for loop over the page.
ScanMessage ==
    /\ pc = "scan"
    /\ LET message == message_page[idx]
       IN IF IsRepliedTo(message, self_msg)
          THEN /\ result' = Some(Message(self_msg.chat, is_group, message))
               /\ pc' = "done"
               /\ UNCHANGED <<last_id, idx>>
          ELSE /\ last_id' = message.id
               /\ IF idx = Len(message_page)
                  THEN pc' = "fetch" /\ UNCHANGED idx
                  ELSE idx' = idx + 1 /\ UNCHANGED pc
               /\ UNCHANGED result
    /\ UNCHANGED <<is_group, conv, params, message_page, error,
                   error_message, requests,
                   self_msg, directory, chat_id>>
    /\ UNCHANGED paginator_only
    /\ UNCHANGED merge_vars
    /\ UNCHANGED <<dir_vars, arg_vars>>

NextReply == NotAReply \/ ResolveChat \/ ReplyPage \/ ScanMessage

SpecReply == InitReply /\ [][NextReply]_vars

\* ------------------------------------------------ GroupMe.get_chats: merge
\* A comparison the wrong way round.
GroupNewer_Flipped(group, dm) == group.last_used_epoch < dm.last_used_epoch

\* A comparison that also takes the group on a tie.
GroupNewer_OrEqual(group, dm) == group.last_used_epoch >= dm.last_used_epoch

\* base_object.py:205
GroupNewer(group, dm) == group.last_used_epoch > dm.last_used_epoch

\* base_object.py:204, the while condition (indexes are 0-based in the code)
BothLeft == group_index < Len(groups) /\ dm_index < Len(direct_messages)

\* The merge starts at base_object.py:201 with the two lists it is given.
InitMerge ==
    /\ groups \in ChatLists("Group")
    /\ direct_messages \in ChatLists("DirectMessage")
    /\ chats = <<>>
    /\ group_index = 0 /\ dm_index = 0
    /\ mpc = "merge"
    /\ is_group = FALSE /\ conv = <<>> /\ pc = "idle"
    /\ params = EmptyDict /\ message_page = <<>> /\ idx = 0
    /\ error = "none" /\ error_message = NoMessage /\ requests = <<>>
    /\ before = 0 /\ after = 0 /\ keyword = <<>> /\ limit = NoLimit
    /\ messages = <<>> /\ num_skipped = 0 /\ in_range = TRUE
    /\ self_msg = Message(ChatName, is_group, ApiMessage(NoneId, 1, NoneText))
    /\ directory = <<>> /\ chat_id = NoneChat /\ last_id = NoneId
    /\ result = NoResult
    /\ IdleDir
    /\ NoArgs

\* base_object.py:204-210: one iteration of the two-pointer loop.
MergeStep ==
    /\ mpc = "merge" /\ BothLeft
    /\ IF GroupNewer(groups[group_index + 1], direct_messages[dm_index + 1])
       THEN /\ chats' = Append(chats, groups[group_index + 1])
            /\ group_index' = group_index + 1
            /\ UNCHANGED dm_index
       ELSE /\ chats' = Append(chats, direct_messages[dm_index + 1])
            /\ dm_index' = dm_index + 1
            /\ UNCHANGED group_index
    /\ UNCHANGED <<groups, direct_messages, mpc>>
    /\ UNCHANGED <<pvars, reply_only, dir_vars, arg_vars>>

\* base_object.py:211 and 215: the loop is over, pick the list to drain.
ChooseDrain ==
    /\ mpc = "merge" /\ ~BothLeft
    /\ mpc' = IF group_index = Len(groups) THEN "drain_dm" ELSE "drain_group"
    /\ UNCHANGED <<groups, direct_messages, chats, group_index, dm_index>>
    /\ UNCHANGED <<pvars, reply_only, dir_vars, arg_vars>>

\* base_object.py:212-214, and 220 when the list is drained.
DrainDms ==
    /\ mpc = "drain_dm"
    /\ IF dm_index < Len(direct_messages)
       THEN /\ chats' = Append(chats, direct_messages[dm_index + 1])
            /\ dm_index' = dm_index + 1
            /\ UNCHANGED mpc
       ELSE /\ mpc' = "done"
            /\ UNCHANGED <<chats, dm_index>>
    /\ UNCHANGED <<groups, direct_messages, group_index>>
    /\ UNCHANGED <<pvars, reply_only, dir_vars, arg_vars>>

\* base_object.py:216-218, and 220 when the list is drained.
DrainGroups ==
    /\ mpc = "drain_group"
    /\ IF group_index < Len(groups)
       THEN /\ chats' = Append(chats, groups[group_index + 1])
            /\ group_index' = group_index + 1
            /\ UNCHANGED mpc
       ELSE /\ mpc' = "done"
            /\ UNCHANGED <<chats, group_index>>
    /\ UNCHANGED <<groups, direct_messages, dm_index>>
    /\ UNCHANGED <<pvars, reply_only, dir_vars, arg_vars>>

NextMerge == MergeStep \/ ChooseDrain \/ DrainDms \/ DrainGroups

SpecMerge == InitMerge /\ [][NextMerge]_vars

\* ------------------------------------------------------ chat directory
\* The credential of the GroupMe object (self.token).
Token == "token"

\* The page of a listing the server answers with: offset pagination by
\* `page`, at most per_page and at most MaxListPage entries.
ListingPage(listing, ps) ==
    LET size == Min(ps.per_page, MaxListPage)
        from == (ps.page - 1) * size
    IN  SubSeq(listing, from + 1, Min(from + size, Len(listing)))

\* What a constructor builds (chat.py:61-68, 99-105).
NamedChat(kind, data, token) ==
    [kind |-> kind, id |-> data.id, name |-> data.name,
     last_used_epoch |-> data.last, token |-> token]

\* chat.py:54 Group.__init__(self, data, token) called with `args`: a call
\* without both arguments is a TypeError.
GroupInit(args) ==
    IF Len(args) # 2 THEN [exc |-> "TypeError", obj |-> NoResult]
    ELSE [exc |-> "none", obj |-> Some(NamedChat("Group", args[1], args[2]))]

\* chat.py:92 DirectMessage.__init__(self, data, token) called with `args`.
DirectMessageInit(args) ==
    IF Len(args) # 2 THEN [exc |-> "TypeError", obj |-> NoResult]
    ELSE [exc |-> "none",
          obj |-> Some(NamedChat("DirectMessage", args[1], args[2]))]

\* base_object.py:59 Group(group, self.token); 86 DirectMessage(dm).
ConstructFound(which, data) ==
    IF which = "groups" THEN GroupInit(<<data, Token>>)
    ELSE DirectMessageInit(<<data>>)

\* base_object.py:47-51 and 75-78
ListParams(which) ==
    IF which = "groups"
    THEN Put(Put(Put(EmptyDict, "page", 1), "per_page", PerPage),
             "omit", "memberships")
    ELSE Put(Put(EmptyDict, "page", 1), "per_page", PerPage)

\* base_object.py:54, 63 and 81, 90
SearchError(which) ==
    IF which = "groups" THEN <<"Unexpected error searching groups">>
    ELSE <<"Unexpected error searching direct messages">>

\* base_object.py:111
NotFoundError(name) == <<"No chat found with the name ", name>>

\* The server's listing behind an endpoint.
Listed(which) == IF which = "groups" THEN group_list ELSE dm_list

\* base_object.py:103-106: the listing get_chat searches first.
FirstStream(isdm) == IF isdm THEN "chats" ELSE "groups"

\* The first entry of a page with the name searched (base_object.py:57-59,
\* 84-86): its position, 0 when there is none.
FirstNamed(page, name) ==
    IF \E j \in 1..Len(page) : page[j].name = name
    THEN CHOOSE j \in 1..Len(page) :
            /\ page[j].name = name
            /\ \A k \in 1..(j - 1) : page[k].name # name
    ELSE 0

InitChat ==
    /\ is_dm \in BOOLEAN
    /\ group_list \in NamedListings
    /\ dm_list \in NamedListings
    /\ cutoff = 0 /\ stream = "none" /\ list_page = <<>>
    /\ pc = "gc_start"
    /\ params = EmptyDict /\ message_page = <<>> /\ idx = 0
    /\ error = "none" /\ error_message = NoMessage /\ requests = <<>>
    /\ is_group = FALSE /\ conv = <<>>
    /\ before = 0 /\ after = 0 /\ keyword = <<>> /\ limit = NoLimit
    /\ messages = <<>> /\ num_skipped = 0 /\ in_range = TRUE
    /\ self_msg = Message(ChatName, is_group, ApiMessage(NoneId, 1, NoneText))
    /\ directory = <<>> /\ chat_id = NoneChat /\ last_id = NoneId
    /\ result = NoResult
    /\ last_used = <<>> /\ clock = Noon
    /\ IdleMerge
    /\ NoArgs

\* What no get_chat step touches.
chat_frame == <<is_group, conv, message_page, idx, before, after, keyword,
                limit, messages, num_skipped, in_range, self_msg, directory,
                chat_id, last_id, merge_vars, is_dm, cutoff, group_list,
                dm_list, last_used, clock, arg_vars>>

\* base_object.py:103-106 with 46-51 or 74-78: enter _get_dm or _get_group.
GetChatEnter ==
    /\ pc = "gc_start"
    /\ stream' = FirstStream(is_dm)
    /\ params' = ListParams(FirstStream(is_dm))
    /\ pc' = "gc_request"
    /\ UNCHANGED <<list_page, error, error_message, requests, result>>
    /\ UNCHANGED chat_frame

\* base_object.py:54-55, 63 (groups) and 81-82, 90 (chats): request a page
\* and test the while condition.  When it fails _get_group / _get_dm return
\* None: after the groups get_chat goes on with _get_dm (107-108), after the
\* chats it raises (110-111).  A 304 on `groups` comes back from call_api as
\* the dictionary {'messages': []}, whose only key fails at group['name'].
GetChatRequest ==
    /\ pc = "gc_request"
    /\ \E status \in Statuses :
         LET r == call_api(<<stream>>, status,
                           [exc |-> "none", keys |-> {},
                            list |-> ListingPage(Listed(stream), params)],
                           SearchError(stream))
         IN  /\ requests' = Append(requests, Logged(<<stream>>, params, status, r))
             /\ IF r.exc # "none"
                THEN /\ pc' = "raised"
                     /\ error' = r.exc /\ error_message' = r.message
                     /\ UNCHANGED <<stream, params, list_page>>
                ELSE IF r.keys # {}
                THEN /\ pc' = "raised"
                     /\ error' = "TypeError" /\ error_message' = NoMessage
                     /\ UNCHANGED <<stream, params, list_page>>
                ELSE IF Len(r.list) > 0
                THEN /\ list_page' = r.list
                     /\ pc' = "gc_scan"
                     /\ UNCHANGED <<stream, params, error, error_message>>
                ELSE IF stream = "groups"
                THEN /\ list_page' = r.list
                     /\ stream' = "chats"
                     /\ params' = ListParams("chats")
                     /\ pc' = "gc_request"
                     /\ UNCHANGED <<error, error_message>>
                ELSE /\ list_page' = r.list
                     /\ pc' = "raised"
                     /\ error' = "GroupMeException"
                     /\ error_message' = NotFoundError(ChatName)
                     /\ UNCHANGED <<stream, params>>
    /\ UNCHANGED result
    /\ UNCHANGED chat_frame

\* base_object.py:57-62 and 84-89: the for loop over the page, returning the
\* first chat of that name, else the next page number.
GetChatScan ==
    /\ pc = "gc_scan"
    /\ LET j == FirstNamed(list_page, ChatName)
       IN IF j # 0
          THEN LET c == ConstructFound(stream, list_page[j])
               IN IF c.exc # "none"
                  THEN /\ pc' = "raised"
                       /\ error' = c.exc /\ error_message' = NoMessage
                       /\ UNCHANGED <<result, params>>
                  ELSE /\ pc' = "done"
                       /\ result' = c.obj
                       /\ UNCHANGED <<error, error_message, params>>
          ELSE /\ params' = Put(params, "page", params.page + 1)
               /\ pc' = "gc_request"
               /\ UNCHANGED <<error, error_message, result>>
    /\ UNCHANGED <<stream, list_page, requests>>
    /\ UNCHANGED chat_frame

NextChat == GetChatEnter \/ GetChatRequest \/ GetChatScan

SpecChat == InitChat /\ [][NextChat]_vars

\* ------------------------------------------------------------ get_chats
\* base_object.py:137, 160 and 173, 196
ListError(which) ==
    IF which = "groups" THEN <<"Unexpected error fetching groups">>
    ELSE <<"Unexpected error fetching direct messages">>

\* base_object.py:156 Group(group, self.token); 192 DirectMessage(dm).
ConstructListed(which, data) ==
    IF which = "groups" THEN GroupInit(<<data, Token>>)
    ELSE DirectMessageInit(<<data>>)

\* base_object.py:144-146 and 180-182: `if cutoff:` and the comparison;
\* get_cutoff's None is 0 here, as falsy as 0 is there.
BelowCutoff(entry, cut) == cut # 0 /\ entry.last < cut

InitChats ==
    /\ cutoff \in BoundValues
    /\ group_list \in DatedListings
    /\ dm_list \in DatedListings
    /\ is_dm = FALSE /\ stream = "none" /\ list_page = <<>>
    /\ pc = "gl_groups"
    /\ params = EmptyDict /\ message_page = <<>> /\ idx = 0
    /\ error = "none" /\ error_message = NoMessage /\ requests = <<>>
    /\ is_group = FALSE /\ conv = <<>>
    /\ before = 0 /\ after = 0 /\ keyword = <<>> /\ limit = NoLimit
    /\ messages = <<>> /\ num_skipped = 0 /\ in_range = TRUE
    /\ self_msg = Message(ChatName, is_group, ApiMessage(NoneId, 1, NoneText))
    /\ directory = <<>> /\ chat_id = NoneChat /\ last_id = NoneId
    /\ result = NoResult
    /\ last_used = <<>> /\ clock = Noon
    /\ IdleMerge
    /\ NoArgs

\* What no get_chats listing step touches.
chats_frame == <<is_group, conv, message_page, before, after, keyword, limit,
                 messages, num_skipped, reply_only, chats, group_index,
                 dm_index, mpc, is_dm, cutoff, group_list, dm_list,
                 last_used, clock, arg_vars>>

\* A page request of get_chats to the listing `which` with parameters `ps`,
\* and the while test on what comes back (base_object.py:140, 176) with the
\* flag `inrange`.  A 304 on `groups` comes back from call_api as the
\* dictionary {'messages': []}: of length 1, and its key fails in the for
\* loop at group['messages'] or in Group.__init__ at data['id'].
ListRequest(which, ps, inrange) ==
    \E status \in Statuses :
       LET r == call_api(<<which>>, status,
                         [exc |-> "none", keys |-> {},
                          list |-> ListingPage(Listed(which), ps)],
                         ListError(which))
       IN  /\ requests' = Append(requests, Logged(<<which>>, ps, status, r))
           /\ stream' = which
           /\ params' = ps
           /\ in_range' = inrange
           /\ IF r.exc # "none"
              THEN /\ pc' = "raised"
                   /\ error' = r.exc /\ error_message' = r.message
                   /\ UNCHANGED <<list_page, idx>>
              ELSE IF r.keys # {} /\ inrange
              THEN /\ pc' = "raised"
                   /\ error' = "TypeError" /\ error_message' = NoMessage
                   /\ UNCHANGED <<list_page, idx>>
              ELSE /\ list_page' = r.list
                   /\ UNCHANGED <<error, error_message>>
                   /\ IF Len(r.list) > 0 /\ inrange
                      THEN pc' = "gl_scan" /\ idx' = 1
                      ELSE /\ idx' = 0
                           /\ pc' = IF which = "groups" THEN "gl_chats"
                                    ELSE "merge"

\* base_object.py:121-140: the first page of groups.
ListGroups ==
    /\ pc = "gl_groups"
    /\ ListRequest("groups", ListParams("groups"), TRUE)
    /\ UNCHANGED <<groups, direct_messages>>
    /\ UNCHANGED chats_frame

\* base_object.py:166-176: the first page of direct message chats.
ListChats ==
    /\ pc = "gl_chats"
    /\ ListRequest("chats", ListParams("chats"), TRUE)
    /\ UNCHANGED <<groups, direct_messages>>
    /\ UNCHANGED chats_frame

\* base_object.py:142-156 and 178-192: one iteration of the for loop; a break
\* or the end of the page leads to the next page request.
ListScan ==
    /\ pc = "gl_scan"
    /\ LET entry == list_page[idx]
           c == ConstructListed(stream, entry)
       IN IF BelowCutoff(entry, cutoff)
          THEN /\ in_range' = FALSE
               /\ pc' = "gl_next"
               /\ UNCHANGED <<groups, direct_messages, idx, error, error_message>>
          ELSE IF c.exc # "none"
          THEN /\ pc' = "raised"
               /\ error' = c.exc /\ error_message' = NoMessage
               /\ UNCHANGED <<groups, direct_messages, idx, in_range>>
          ELSE /\ IF stream = "groups"
                  THEN /\ groups' = Append(groups, c.obj[1])
                       /\ UNCHANGED direct_messages
                  ELSE /\ direct_messages' = Append(direct_messages, c.obj[1])
                       /\ UNCHANGED groups
               /\ IF idx = Len(list_page)
                  THEN pc' = "gl_next" /\ UNCHANGED idx
                  ELSE idx' = idx + 1 /\ UNCHANGED pc
               /\ UNCHANGED <<in_range, error, error_message>>
    /\ UNCHANGED <<stream, params, list_page, requests>>
    /\ UNCHANGED chats_frame

\* base_object.py:159-160 and 195-196, then the while test.
ListNext ==
    /\ pc = "gl_next"
    /\ ListRequest(stream, Put(params, "page", params.page + 1), in_range)
    /\ UNCHANGED <<groups, direct_messages>>
    /\ UNCHANGED chats_frame

NextChats == ListGroups \/ ListChats \/ ListScan \/ ListNext

SpecChats == InitChats /\ [][NextChats]_vars

\* ------------------------------------------------- get_cutoff, applied
InitCutoff ==
    /\ last_used \in LastUsedValues
    /\ clock \in Clocks
    /\ cutoff = 0
    /\ is_dm = FALSE /\ group_list = <<>> /\ dm_list = <<>>
    /\ stream = "none" /\ list_page = <<>>
    /\ pc = "cutoff"
    /\ params = EmptyDict /\ message_page = <<>> /\ idx = 0
    /\ error = "none" /\ error_message = NoMessage /\ requests = <<>>
    /\ is_group = FALSE /\ conv = <<>>
    /\ before = 0 /\ after = 0 /\ keyword = <<>> /\ limit = NoLimit
    /\ messages = <<>> /\ num_skipped = 0 /\ in_range = TRUE
    /\ self_msg = Message(ChatName, is_group, ApiMessage(NoneId, 1, NoneText))
    /\ directory = <<>> /\ chat_id = NoneChat /\ last_id = NoneId
    /\ result = NoResult
    /\ IdleMerge
    /\ NoArgs

\* base_object.py:126: cutoff = get_cutoff(last_used)
GetCutoff ==
    /\ pc = "cutoff"
    /\ LET r == get_cutoff(last_used, clock)
       IN IF r.exc # "none"
          THEN /\ pc' = "raised"
               /\ error' = r.exc /\ error_message' = r.message
               /\ UNCHANGED cutoff
          ELSE /\ pc' = "done"
               /\ cutoff' = r.val
               /\ UNCHANGED <<error, error_message>>
    /\ UNCHANGED <<is_group, before, after, keyword, limit, conv, messages,
                   num_skipped, in_range, params, message_page, idx, requests>>
    /\ UNCHANGED <<reply_only, merge_vars>>
    /\ UNCHANGED <<is_dm, group_list, dm_list, stream, list_page, last_used,
                   clock, arg_vars>>

NextCutoff == GetCutoff

SpecCutoff == InitCutoff /\ [][NextCutoff]_vars

\* ------------------------------------------- before / after conversion
\* A number below 100 as two digits.
TwoDigits(n) == <<DigitChars[(n \div 10) + 1], DigitChars[(n % 10) + 1]>>
\* "MM/DD/YYYY" and "HH:MM:SS"
DateString(d) ==
    TwoDigits(d.month) \o <<"/">> \o TwoDigits(d.mday) \o <<"/">> \o str(d.year)
TimeString(t) ==
    TwoDigits(t.hour) \o <<":">> \o TwoDigits(t.min) \o <<":">> \o TwoDigits(t.sec)

\* The days and the times of day the bounds are given for.
BoundDates ==
    { [year |-> 2023, month |-> 12, mday |-> 31],
      [year |-> 2024, month |-> 1, mday |-> 15],
      [year |-> 2024, month |-> 2, mday |-> 29] }
BoundTimes ==
    { [hour |-> 8, min |-> 0, sec |-> 1], [hour |-> 12, min |-> 30, sec |-> 45],
      [hour |-> 23, min |-> 59, sec |-> 58] }

\* The `before` / `after` arguments: '', a bare date, a date with a time.
BoundStrings ==
    {<<>>} \cup { DateString(d) : d \in BoundDates }
           \cup { DateString(d) \o <<" ">> \o TimeString(t) :
                    d \in BoundDates, t \in BoundTimes }

\* time_functions.string_to_epoch, which chat.py:17 imports: the epoch of
\* "MM/DD/YYYY HH:MM:SS", and of "MM/DD/YYYY" at the start of that day.
string_to_epoch(s) ==
    LET parts == split(s, " ")
        d == split(parts[1], "/")
        t == IF Len(parts) > 1 THEN split(parts[2], ":")
             ELSE <<<<"0">>, <<"0">>, <<"0">>>>
    IN  timestamp(datetime(int(d[3]).val, int(d[1]).val, int(d[2]).val,
                           int(t[1]).val, int(t[2]).val, int(t[3]).val).val)

\* An upper bound widened to the start of the day.
WidenBefore_Midnight(s) ==
    IF Len(split(s, " ")) = 1
    THEN s \o <<" ", "0", "0", ":", "0", "0", ":", "0", "0">>
    ELSE s

\* chat.py:133-134
WidenBefore(s) ==
    IF Len(split(s, " ")) = 1
    THEN s \o <<" ", "2", "3", ":", "5", "9", ":", "5", "9">>
    ELSE s

\* chat.py:138-139
WidenAfter(s) ==
    IF Len(split(s, " ")) = 1
    THEN s \o <<" ", "0", "0", ":", "0", "0", ":", "0", "0">>
    ELSE s

InitBounds ==
    /\ before_str \in BoundStrings
    /\ after_str \in BoundStrings
    /\ before = 0 /\ after = 0
    /\ pc = "bounds_before"
    /\ is_group = FALSE /\ conv = <<>>
    /\ keyword = <<>> /\ limit = NoLimit
    /\ messages = <<>> /\ num_skipped = 0 /\ in_range = TRUE
    /\ params = EmptyDict /\ message_page = <<>> /\ idx = 0
    /\ error = "none" /\ error_message = NoMessage /\ requests = <<>>
    /\ self_msg = Message(ChatName, is_group, ApiMessage(NoneId, 1, NoneText))
    /\ directory = <<>> /\ chat_id = NoneChat /\ last_id = NoneId
    /\ result = NoResult
    /\ IdleMerge
    /\ IdleDir

\* chat.py:132-135.  '' is left as it is: falsy, which the paginator's
\* tests read as 0 is read.
ConvertBefore ==
    /\ pc = "bounds_before"
    /\ before' = IF before_str # <<>>
                 THEN string_to_epoch(WidenBefore(before_str))
                 ELSE 0
    /\ pc' = "bounds_after"
    /\ UNCHANGED <<is_group, after, keyword, limit, conv, messages,
                   num_skipped, in_range, params, message_page, idx, error,
                   error_message, requests>>
    /\ UNCHANGED <<reply_only, merge_vars, dir_vars, arg_vars>>

\* chat.py:137-140
ConvertAfter ==
    /\ pc = "bounds_after"
    /\ after' = IF after_str # <<>>
                THEN string_to_epoch(WidenAfter(after_str))
                ELSE 0
    /\ pc' = "start"
    /\ UNCHANGED <<is_group, before, keyword, limit, conv, messages,
                   num_skipped, in_range, params, message_page, idx, error,
                   error_message, requests>>
    /\ UNCHANGED <<reply_only, merge_vars, dir_vars, arg_vars>>

NextBounds == ConvertBefore \/ ConvertAfter

SpecBounds == InitBounds /\ [][NextBounds]_vars

\* ================================================================ claims
Last(q) == q[Len(q)]
Returned == pc = "done"
\* A step that sends a request.
Requesting == Len(requests') = Len(requests) + 1
\* Every answer so far was a 200.
AllOk == \A n \in 1..Len(requests) : requests[n].status = 200
\* The conversation is stored newest first.
NewestFirst(c) ==
    \A i, j \in 1..Len(c) : i < j => c[i].created_at >= c[j].created_at
\* The message the for loop is looking at.
Current == message_page[idx]

C2_AfterRespected ==
    after # 0 => \A j \in 1..Len(messages) : messages[j].time_epoch >= after

C2_Witness ==
    /\ Returned /\ after # 0 /\ before # 0 /\ keyword # <<>> /\ limit # NoLimit
    /\ Len(messages) > 0
    /\ \E j \in 1..Len(conv) : conv[j].created_at < after

\* C3: once a message older than `after` was met (in_range is False), no
\* further request is sent.
C3_NoRequestAfterStop ==
    [][~in_range => Len(requests') = Len(requests)]_vars

C6_CursorIsLastOfPreviousPage ==
    \A n \in 1..(Len(requests) - 1) :
        requests[n].page # <<>> =>
            /\ HasKey(requests[n + 1].params, "before_id")
            /\ requests[n + 1].params.before_id = Last(requests[n].page).id

\* The messages of a conversation that meet the criteria, newest first.
Matching(c) ==
    SelectSeq(c, LAMBDA m : ~OutOfRange(m, after) /\ ~Skipped(m, before, keyword))

C8_NotModifiedEndsCleanly ==
    [][(pc = "fetch" /\ Requesting /\ Last(requests').status = 304)
       => (/\ pc' = "done" /\ error' = "none"
           /\ message_page' = <<>>
           /\ messages' = messages)]_vars

C8_Witness ==
    /\ Returned /\ Len(requests) >= 2 /\ Last(requests).status = 304
    /\ Len(messages) > 0 /\ Len(messages) < Len(conv)

\* The message requests of the log (the directory request is not one), and
\* whether a logged page holds the message with id x.
IsMessageRequest(rq) == rq.endpoint # <<"groups">> /\ rq.endpoint # <<"chats">>
PageHolds(rq, x) == \E j \in 1..Len(rq.page) : rq.page[j].id = x
Record(page, x) == page[CHOOSE j \in 1..Len(page) : page[j].id = x]

\* C9: for a message with reply_message_id = X, when a page of the backward
\* page sequence from self.id holds a message with id X, replied_message
\* returns the Message built from that record and that page is the last one
\* requested (the scan of that page does not pass the record); when it
\* returns after an empty page without any page holding X, it returns None.
C9_ReplyResolved ==
    LET X == self_msg.reply_message_id
        hits == { n \in 1..Len(requests) :
                    IsMessageRequest(requests[n]) /\ PageHolds(requests[n], X) }
    IN  /\ \A n \in hits : n = Len(requests)
        /\ (Returned /\ hits # {}) =>
              /\ Len(result) = 1
              /\ result[1] = Message(self_msg.chat, is_group,
                                     Record(Last(requests).page, X))
              /\ result[1].id = X
        /\ (Returned /\ X # NoneId /\ hits = {}) =>
              /\ result = NoResult
              /\ Last(requests).page = <<>>
        /\ (hits # {} /\ pc = "scan") =>
              \E j \in idx..Len(message_page) : message_page[j].id = X

\* The reply is found on the second page of a Group.
C9_Witness ==
    /\ Returned /\ is_group /\ Len(result) = 1
    /\ Len(requests) = 3
    /\ result[1].id = self_msg.reply_message_id

\* The reply is not in the conversation: two pages, then an empty one.
C9_WitnessNotFound ==
    /\ Returned /\ result = NoResult /\ self_msg.reply_message_id # NoneId
    /\ Len(requests) = 4

\* A list of chats in descending order of last activity.
Descending(l) ==
    \A i, j \in 1..Len(l) : i < j => l[i].last_used_epoch >= l[j].last_used_epoch
OfKind(l, kind) == SelectSeq(l, LAMBDA c : c.kind = kind)
Occurrences(l, c) == Cardinality({ j \in 1..Len(l) : l[j] = c })

\* C10: when the group list and the direct-message list are each in
\* descending order of last_used_epoch, the list get_chats returns is in
\* descending order, holds every chat of both lists exactly once, and keeps
\* the order each list had.
C10_MergeSorted ==
    (mpc = "done" /\ Descending(groups) /\ Descending(direct_messages)) =>
        /\ Descending(chats)
        /\ Len(chats) = Len(groups) + Len(direct_messages)
        /\ \A j \in 1..Len(groups) : Occurrences(chats, groups[j]) = 1
        /\ \A j \in 1..Len(direct_messages) :
              Occurrences(chats, direct_messages[j]) = 1
        /\ OfKind(chats, "Group") = groups
        /\ OfKind(chats, "DirectMessage") = direct_messages

\* Two groups and two direct messages, interleaved, with a tie among them.
C10_Witness ==
    /\ mpc = "done" /\ Descending(groups) /\ Descending(direct_messages)
    /\ Len(groups) = 2 /\ Len(direct_messages) = 2
    /\ chats[1].kind = "Group" /\ chats[2].kind = "DirectMessage"
    /\ chats[3].kind = "DirectMessage" /\ chats[4].kind = "Group"
    /\ chats[3].last_used_epoch = chats[4].last_used_epoch

\* The heads of the two lists have the same last_used_epoch.
HeadsTie ==
    /\ mpc = "merge" /\ BothLeft
    /\ groups[group_index + 1].last_used_epoch
         = direct_messages[dm_index + 1].last_used_epoch

\* C11 (as claimed): when the heads of the two lists tie, the Group is
\* output before the DirectMessage.
C11_GroupFirstOnTie ==
    [][HeadsTie => Last(chats') = groups[group_index + 1]]_vars

\* C11 (amended): when the heads of the two lists tie, the DirectMessage is
\* output before the Group, and the Group stays the head of its list.
C11_DmFirstOnTie ==
    [][HeadsTie => (/\ Last(chats') = direct_messages[dm_index + 1]
                    /\ dm_index' = dm_index + 1
                    /\ group_index' = group_index)]_vars

\* A merge that met a tie: the DirectMessage stands right before the Group.
C11_Witness ==
    /\ mpc = "done"
    /\ \E j \in 1..(Len(chats) - 1) :
          /\ chats[j].kind = "DirectMessage" /\ chats[j + 1].kind = "Group"
          /\ chats[j].last_used_epoch = chats[j + 1].last_used_epoch
          /\ chats[j] = direct_messages[1] /\ chats[j + 1] = groups[1]


\* ---- C12
\* Some entry of the listing has the name searched.
Lists(listing, name) == \E j \in 1..Len(listing) : listing[j].name = name
\* get_chat has ended, by a return or by an exception.
Ended == pc \in {"done", "raised"}
\* The n-th request went to the listing `which`.
RequestOf(n, which) == requests[n].endpoint = <<which>>
\* preferDirectMessage: no request ever goes to the group listing.
DmOnly == is_dm => \A n \in 1..Len(requests) : ~RequestOf(n, "groups")
\* Every group request precedes every direct message request, and the request
\* before the first direct message request is the one that found the group
\* listing exhausted.
GroupsScannedFirst ==
    ~is_dm =>
        \A n \in 1..Len(requests) :
            RequestOf(n, "chats") =>
                /\ \A k \in (n + 1)..Len(requests) : RequestOf(k, "chats")
                /\ n > 1
                /\ RequestOf(n - 1, "chats") \/ requests[n - 1].page = <<>>
\* A group of that name is the one returned.
GroupWins ==
    (~is_dm /\ AllOk /\ Ended /\ Lists(group_list, ChatName)) =>
        /\ pc = "done"
        /\ result # NoResult
        /\ result[1].kind = "Group" /\ result[1].name = ChatName
\* Without such a group the direct message chat of that name is returned.
DmReturned ==
    (~is_dm /\ AllOk /\ Ended
        /\ ~Lists(group_list, ChatName) /\ Lists(dm_list, ChatName)) =>
        /\ pc = "done"
        /\ result # NoResult
        /\ result[1].kind = "DirectMessage" /\ result[1].name = ChatName
\* The not-found error is raised exactly when neither listing has the name.
NotFoundExactly ==
    (~is_dm /\ AllOk /\ Ended) =>
        ((error = "GroupMeException" /\ error_message = NotFoundError(ChatName))
            <=> (~Lists(group_list, ChatName) /\ ~Lists(dm_list, ChatName)))

\* C12: get_chat with is_dm searches the direct messages only; without it,
\* it scans every group page before any direct message request, returns the
\* group of that name if there is one, else the direct message chat of that
\* name, and raises the not-found error exactly when neither listing has
\* the name.
C12_ResolveByName ==
    /\ DmOnly
    /\ GroupsScannedFirst
    /\ GroupWins
    /\ DmReturned
    /\ NotFoundExactly

\* ---- C13
\* The status of the request this step sends.
SentStatus == Last(requests').status

\* C13: a 200 hands the paginator the page of the envelope's `response`; a
\* status other than 200 and 304 raises GroupMeException with the message
\* the caller passed (the default one when it passed none), and the
\* paginator ends with that exception, returning nothing, then or later.
C13_GatewayErrorAborts ==
    [][/\ (Requesting /\ SentStatus = 200) =>
            /\ Last(requests').exc = "none"
            /\ message_page' \in ServerPages(conv, params')
            /\ message_page' = Last(requests').page
            /\ error' = "none"
       /\ (Requesting /\ SentStatus \notin {200, 304}) =>
            /\ pc' = "raised"
            /\ error' = "GroupMeException"
            /\ error_message' = <<"Error fetching messages from ", ChatName>>
            /\ messages' = messages
       /\ \A status \in Statuses \ {200, 304} :
            call_api(Endpoint(is_group, ChatId), status,
                     Payload(is_group, <<>>), NoMessage).message
                = <<"Unspecified error occurred">>
       /\ pc = "raised" => pc' = "raised"]_vars

\* A request fails after messages were collected, and nothing is returned.
C13_Witness ==
    /\ pc = "raised"
    /\ error = "GroupMeException"
    /\ error_message = FetchError(ChatName)
    /\ Len(messages) > 0
    /\ Len(requests) > 1
    /\ Last(requests).status = 500

\* ---- C14
\* The step requests a further page of the listing it was reading.
RequestsFurtherPage ==
    /\ Requesting
    /\ Last(requests').endpoint = <<stream>>

\* C14: once get_chats has met an entry of a listing whose last activity is
\* below the cutoff, it requests no further page of that listing.
C14_NoPageAfterCutoff ==
    [][RequestsFurtherPage => in_range]_vars

\* ---- C15
\* get_cutoff has ended on the duration of n units `unit`.
Converted(n, unit) == pc # "cutoff" /\ last_used = str(n) \o unit
\* It was accepted and gave the epoch `seconds` before now.
Yields(seconds) == pc = "done" /\ cutoff = timestamp(clock) - seconds
\* The fixed-length units other than the minute.
HoursDaysWeeks ==
    \A n \in 0..MaxNumber :
        /\ Converted(n, <<"h">>) => Yields(n * 3600)
        /\ Converted(n, <<"d">>) => Yields(n * 86400)
        /\ Converted(n, <<"w">>) => Yields(n * 604800)

\* C15: get_cutoff accepts "<n>min", "<n>h", "<n>d" and "<n>w" for every
\* n >= 0 and returns now - n*60, now - n*3600, now - n*86400 and
\* now - n*604800; none of them raises.
C15_FixedUnitsAccepted ==
    /\ \A n \in 0..MaxNumber : Converted(n, <<"m", "i", "n">>) => Yields(n * 60)
    /\ HoursDaysWeeks

\* ---- C16
\* The month and year n calendar months before the clock's, a year borrowed
\* for every twelve months and when the month would fall to zero or below.
MonthsBefore(n) ==
    LET back == (clock.year * 12 + (clock.month - 1)) - n
    IN  [clock EXCEPT !.year = back \div 12, !.month = (back % 12) + 1]
\* get_cutoff raised something other than its domain error.
NonDomainError == pc = "raised" /\ error # "GroupMeException"

\* C16: for every month of the clock and every n >= 0, "<n>m" gives the
\* cutoff exactly n calendar months before now, the year borrowed when
\* n mod 12 >= the clock's month, and get_cutoff raises nothing but
\* GroupMeException, whatever the duration.
C16_CalendarMonths ==
    /\ \A n \in 0..MaxNumber :
          (/\ Converted(n, <<"m">>)
           /\ clock.mday <= DaysInMonth(MonthsBefore(n).year,
                                        MonthsBefore(n).month)) =>
                /\ pc = "done"
                /\ cutoff = timestamp(MonthsBefore(n))
    /\ ~NonDomainError

\* ---- C17
\* The epoch of the day d at the time of day t.
EpochAt(d, t) ==
    timestamp([year |-> d.year, month |-> d.month, mday |-> d.mday,
               hour |-> t.hour, min |-> t.min, sec |-> t.sec])
EndOfDay == [hour |-> 23, min |-> 59, sec |-> 59]
StartOfDay == [hour |-> 0, min |-> 0, sec |-> 0]
\* The bound `s` converts to `epoch`: a bare date at the time of day `t`, a
\* date with a time at that time, '' to the falsy value that filters nothing.
ConvertsTo(s, epoch, t) ==
    /\ \A d \in BoundDates :
          /\ s = DateString(d) => epoch = EpochAt(d, t)
          /\ \A u \in BoundTimes :
                s = DateString(d) \o <<" ">> \o TimeString(u)
                    => epoch = EpochAt(d, u)
    /\ s = <<>> =>
          /\ epoch = 0
          /\ \A e \in Epochs, x \in Texts :
                /\ ~Skipped(ApiMessage(1, e, x), epoch, <<>>)
                /\ ~OutOfRange(ApiMessage(1, e, x), epoch)

\* C17: page_through_messages converts a bare date given as `before` at
\* 23:59:59 of that day and one given as `after` at 00:00:00, a bound with a
\* time part as it is, and an empty bound filters nothing.
C17_BareDateWidened ==
    [][/\ pc = "bounds_before" => ConvertsTo(before_str, before', EndOfDay)
       /\ pc = "bounds_after" => ConvertsTo(after_str, after', StartOfDay)]_vars

\* Both bounds were the bare date of 29 February 2024.
C17_Witness ==
    /\ pc = "start"
    /\ before_str = DateString([year |-> 2024, month |-> 2, mday |-> 29])
    /\ after_str = before_str
    /\ before = EpochAt([year |-> 2024, month |-> 2, mday |-> 29], EndOfDay)
    /\ after = EpochAt([year |-> 2024, month |-> 2, mday |-> 29], StartOfDay)
    /\ before - after = 86399

\* ---- C18
\* C18: page_through_messages sends a request only while limit is -1 or
\* fewer than `limit` messages are collected; with the limit reached (and
\* with limit = 0 from the start) it sends none, for a Group and for a
\* DirectMessage.
C18_RequestOnlyWhileNeeded ==
    [][Requesting => (limit = NoLimit \/ Len(messages) < limit)]_vars

\* ---- C19
\* The parameters of the request this step sends.
SentParams == Last(requests').params

\* C19: every request for a Group carries limit = 100 when `limit` is -1,
\* else min(limit - len(messages), 100) with the messages collected when it
\* is sent: never above 100, never above what is still needed; a request
\* for a DirectMessage carries other_user_id and no limit.
C19_RequestLimit ==
    [][Requesting =>
        IF is_group
        THEN /\ HasKey(SentParams, "limit")
             /\ limit = NoLimit => SentParams.limit = 100
             /\ limit # NoLimit =>
                    /\ SentParams.limit \in {limit - Len(messages), 100}
                    /\ SentParams.limit <= limit - Len(messages)
             /\ SentParams.limit <= 100
             /\ (limit # NoLimit /\ limit - Len(messages) <= 100)
                    => SentParams.limit = limit - Len(messages)
        ELSE /\ HasKey(SentParams, "other_user_id")
             /\ SentParams.other_user_id = ChatId
             /\ ~HasKey(SentParams, "limit")]_vars

\* A Group request capped at 100 after messages were collected.
C19_Witness ==
    /\ is_group /\ limit > PageCap
    /\ Len(requests) > 1 /\ Len(messages) > 0
    /\ limit - Len(messages) > PageCap
    /\ Last(requests).params.limit = PageCap

\* ---- C20
\* The call has returned or raised.
Finished == pc \in {"done", "raised"}
\* This step leaves the while loop and returns.
LeavesLoop == pc # "done" /\ pc' = "done"

InCriteria(m) ==
    /\ after # 0 => m.created_at >= after
    /\ before # 0 => m.created_at <= before
    /\ keyword # <<>> => (m.text # NoneText /\ Contains(m.text, keyword))
\* The messages of the conversation that meet them, in the stored order.
Expected == SelectSeq(conv, InCriteria)

C22_NotAReplySendsNothing ==
    self_msg.reply_message_id = NoneId =>
        /\ requests = <<>>
        /\ result = NoResult
        /\ error = "none"
        /\ pc \in {"start", "done"}

\* The call on a message that is not a reply has returned.
C22_Witness ==
    /\ self_msg.reply_message_id = NoneId
    /\ pc = "done" /\ requests = <<>> /\ result = NoResult
    /\ directory # <<>> /\ Len(conv) > 1

\* ---- C23
\* The message requests the resolver has sent, by their place in the log.
MessageRequests == { n \in 1..Len(requests) : IsMessageRequest(requests[n]) }
\* A Group request goes to groups/{id}/messages with before_id and limit.
GroupShape ==
    is_group =>
        \A n \in MessageRequests :
            /\ requests[n].endpoint = <<"groups", chat_id, "messages">>
            /\ DOMAIN requests[n].params = {"before_id", "limit"}
\* A DirectMessage request goes to direct_messages with other_user_id, the
\* other user's id, and before_id.
DmShape ==
    ~is_group =>
        \A n \in MessageRequests :
            /\ requests[n].endpoint = <<"direct_messages">>
            /\ HasKey(requests[n].params, "other_user_id")
            /\ requests[n].params.other_user_id = chat_id
            /\ HasKey(requests[n].params, "before_id")
\* The first cursor is the message's own id, each later one the id of the
\* last message of the page before.
ReplyCursors ==
    \A n \in MessageRequests :
        /\ HasKey(requests[n].params, "before_id")
        /\ requests[n].params.before_id =
              IF n - 1 \in MessageRequests
              THEN Last(requests[n - 1].page).id
              ELSE self_msg.id

\* C23: every message request of replied_message has the shape the
\* paginator's requests have: for a Group groups/{id}/messages with
\* before_id and limit, for a DirectMessage direct_messages with
\* other_user_id and before_id; the cursor starts at the message's id and
\* moves to the last id of each page.
C23_SameRequestShape ==
    /\ GroupShape
    /\ DmShape
    /\ ReplyCursors

\* ---- C24
\* C24: when the first request of page_through_messages is answered 304,
\* the call returns an empty list or raises GroupMeException, and fails in
\* no other way.
C24_FirstNotModifiedEndsCleanly ==
    [][(pc = "start" /\ Requesting /\ SentStatus = 304) =>
          \/ (pc' = "done" /\ messages' = <<>> /\ error' = "none")
          \/ (pc' = "raised" /\ error' = "GroupMeException")]_vars

\* ---- C25
\* The conversation id a message request of the resolver carries: in the
\* path for a Group, in the parameters for a DirectMessage.
RequestedChat(rq) ==
    IF rq.endpoint[1] = "groups" THEN rq.endpoint[2] ELSE rq.params.other_user

\* C25: every message request of replied_message carries the id, not None,
\* of a conversation whose name is self.chat, wherever the listing has it.
C25_OnlyResolvedChats ==
    \A n \in MessageRequests :
        /\ RequestedChat(requests[n]) # NoneChat
        /\ RequestedChat(requests[n]) = ChatId

\* ---- C26
\* A listing in descending order of last activity.
ServedDescending(listing) ==
    \A i, j \in 1..Len(listing) : i < j => listing[i].last >= listing[j].last
\* The entries of a listing at or above the cutoff, and the ids of a list.
InCutoff(listing) == SelectSeq(listing, LAMBDA e : e.last >= cutoff)
Ids(l) == [j \in 1..Len(l) |-> l[j].id]
\* get_chats has listed both streams (and goes on to merge them, which
\* keeps every chat of both lists), or has raised.
BothListed == pc = "merge"
ListingEnded == pc \in {"merge", "raised"}
\* No chat below the cutoff is in the lists that are merged.
NoneBelowCutoff ==
    cutoff # 0 =>
        /\ \A j \in 1..Len(groups) : groups[j].last_used_epoch >= cutoff
        /\ \A j \in 1..Len(direct_messages) :
              direct_messages[j].last_used_epoch >= cutoff
\* Every group at or above the cutoff is in the list of groups.
GroupsComplete ==
    (cutoff # 0 /\ AllOk /\ ServedDescending(group_list) /\ stream = "chats")
        => Ids(groups) = Ids(InCutoff(group_list))
\* Every direct message chat at or above the cutoff is in the result.
DmsComplete ==
    (cutoff # 0 /\ AllOk /\ ServedDescending(group_list)
        /\ ServedDescending(dm_list) /\ ListingEnded) =>
        /\ BothListed
        /\ Ids(direct_messages) = Ids(InCutoff(dm_list))

\* C26: with a cutoff, every chat get_chats returns was last used at or
\* after the cutoff, and when both listings come in descending order of last
\* activity every chat last used at or after the cutoff is returned.
C26_CutoffExact ==
    /\ NoneBelowCutoff
    /\ GroupsComplete
    /\ DmsComplete

\* ---- C27
\* C27: every chat the directory hands out, Group or DirectMessage, was
\* built with the caller's token, and with every gateway call answered 200
\* building a DirectMessage does not fail.
C27_BuiltWithToken ==
    /\ result # NoResult => result[1].token = Token
    /\ \A j \in 1..Len(groups) : groups[j].token = Token
    /\ \A j \in 1..Len(direct_messages) : direct_messages[j].token = Token
    /\ AllOk => error # "TypeError"

====
